---- MODULE Spec2Model ----
(***************************************************************************)
(* Model of the Gree Amber climate integration: the Device of              *)
(* greeclimate/device.py (property store, dirty tracking, binding, push,   *)
(* status handling) and the DeviceDataUpdateCoordinator of coordinator.py. *)
(***************************************************************************)
EXTENDS Integers, Sequences, FiniteSets, TLC

\* ------------------------------------------------------------------------
\* Bounds of the model
\* ------------------------------------------------------------------------
MaxVal == 1
MaxTime == 6
MaxErrorCount == 5

\* ------------------------------------------------------------------------
\* Values
\* ------------------------------------------------------------------------
\* dict.get() of a key that is not in _properties (Python None)
Absent == -999
\* a key that a command message does not carry
NotSent == -998
\* Python None for references (cipher, key, hid, version, time stamps)
None == "None"
NoTime == -1

\* device_cipher of a Device that is not bound
NoCipher == [variant |-> None, key |-> None]

V1 == "V1"
V2 == "V2"
Variants == {V1, V2}

\* device keys a bind confirmation or a caller can supply
DeviceKeys == {"k1", "k2"}
\* the key a freshly constructed CipherV1() / CipherV2() carries
GenericKey == "generic"
EmptyKey == ""

\* Props values used by the model (device.py Props enum) plus one wire key
\* outside the vocabulary
POWER == "Pow"
MODE == "Mod"
TEMP_SET == "SetTem"
TEMP_SENSOR == "TemSen"
TEMP_UNIT == "TemUn"
TEMP_BIT == "TemRec"
HUM_SET == "Dwet"
UNKNOWN_KEY == "Xtra"
BUZZER == "Buzzer_ON_OFF"

PropKeys == {POWER, MODE, TEMP_SET, TEMP_SENSOR, TEMP_UNIT, TEMP_BIT, HUM_SET,
             UNKNOWN_KEY}
CmdKeys == PropKeys \cup {BUZZER}
\* keys written by the plain setters (power, mode): set_property(Props.X, int(value))
SetterKeys == {POWER, MODE}
Vals == 0..MaxVal

TEMP_MIN == 8
TEMP_MAX == 30
TEMP_OFFSET == 40
TEMP_MIN_F == 46
TEMP_MAX_F == 86
TEMP_MIN_TABLE == -60
TEMP_MAX_TABLE == 60
TEMP_MIN_TABLE_F == -76
TEMP_MAX_TABLE_F == 140

HUMIDITY_MIN == 30
HUMIDITY_MAX == 80

\* the values handed to the target_temperature setter
TempInputs == 0..95
\* the Fahrenheit values of the rows of TEMP_TABLE
TableInputs == TEMP_MIN_TABLE_F..TEMP_MAX_TABLE_F
\* the values handed to the target_humidity setter
HumInputs == 15..100

\* firmware ids and the version the regex (?<=V)([\d.]+)\.bin$ extracts
Hids == {"362001000762+U-CS532AE(LT)V3.31.bin", "U-WB05RT13V4.0.bin", "362001060297+U-CS532AF"}

ParseVersion(h) ==
    CASE h = "362001000762+U-CS532AE(LT)V3.31.bin" -> "3.31"
      [] h = "U-WB05RT13V4.0.bin" -> "4.0"
      [] OTHER -> None

\* the callers that run operations on the one Device
Procs == {"bind", "push1", "push2", "poll"}

Range(s) == {s[i] : i \in 1..Len(s)}

VARIABLES
    properties,      \* Device._properties, Absent for a missing key
    dirty,           \* Device._dirty
    device_cipher,   \* DeviceProtocol2.device_cipher: NoCipher or [variant, key]
    device_info,     \* Device.device_info is set
    transport,       \* Device._transport is not None
    ready,           \* DeviceProtocol2.ready (asyncio.Event)
    hid,             \* Device.hid
    version,         \* Device.version
    check_version,   \* Device.check_version
    beep,            \* Device._beep
    bindReqs,        \* variants of the bind requests sent so far
    task,            \* per caller: position in bind / update_state / push_state_update
    last,            \* the operation that ran last and the datagram it sent
    written,         \* keys passed to set_property so far
    error_count,         \* coordinator._error_count
    last_response_time,  \* coordinator._last_response_time
    last_error_time,     \* coordinator._last_error_time
    last_update_success, \* DataUpdateCoordinator.last_update_success
    now,                 \* utcnow()
    cycle,               \* the last finished read cycle: its outcome, whether it
                         \* raised UpdateFailed, the time-outs since the last
                         \* fresh success and the error count that success cleared
    run                  \* consecutive time-outs since the coordinator was healthy

devVars == <<properties, dirty, device_cipher, device_info, transport, ready,
             hid, version, check_version, beep>>
coordVars == <<error_count, last_response_time, last_error_time,
               last_update_success, cycle, run>>
vars == <<properties, dirty, device_cipher, device_info, transport, ready,
          hid, version, check_version, beep, bindReqs, task, last, written,
          error_count, last_response_time, last_error_time,
          last_update_success, now, cycle, run>>

\* ------------------------------------------------------------------------
\* Device: property store and dirty tracking
\* ------------------------------------------------------------------------
\* Device.get_property: _properties.get(name.value)
get_property(props, name) == props[name]

\* set_property without the "not in self._dirty" test of line 394
set_property_append(st, name, value) ==
    IF st.p[name] = value
    THEN st
    ELSE [p |-> [st.p EXCEPT ![name] = value], d |-> Append(st.d, name)]

\* set_property without the equality test of line 390
set_property_always(st, name, value) ==
    [p |-> [st.p EXCEPT ![name] = value],
     d |-> IF name \in Range(st.d) THEN st.d ELSE Append(st.d, name)]

\* set_property that marks the key dirty and stores nothing
set_property_mark_only(st, name, value) ==
    IF get_property(st.p, name) = value THEN st
    ELSE [p |-> st.p,
          d |-> IF name \in Range(st.d) THEN st.d ELSE Append(st.d, name)]

\* Device.set_property on the pair st = [p |-> _properties, d |-> _dirty]
set_property(st, name, value) ==
    IF st.p[name] = value
    THEN st
    ELSE [p |-> [st.p EXCEPT ![name] = value],
          d |-> IF name \in Range(st.d) THEN st.d ELSE Append(st.d, name)]

\* a record whose compensation bit is never set
generate_temperature_record_no_bit(temp_f) ==
    LET n == (temp_f - 32) * 5
        temSet == (2 * n + 9) \div 18
    IN  [f |-> temp_f, temSet |-> temSet, temRec |-> 0]

\* generate_temperature_record (lines 111-114) on an integer temp_f:
\* round((temp_f - 32) * 5 / 9) with n = (temp_f - 32) * 5 is the floor of
\* (2n + 9) / 18 (n / 9 is never a half, so no tie is rounded), and temRec
\* is 1 exactly when n / 9 exceeds the rounded value
generate_temperature_record(temp_f) ==
    LET n == (temp_f - 32) * 5
        temSet == (2 * n + 9) \div 18
    IN  [f |-> temp_f, temSet |-> temSet,
         temRec |-> IF n > 9 * temSet THEN 1 ELSE 0]

\* a range test that rejects the two limits as well
validate_temperature_strict(val) == ~(val >= TEMP_MAX \/ val <= TEMP_MIN)

\* validate of the target_temperature setter (lines 454-456): TRUE when no
\* ValueError is raised
validate_temperature(val) == ~(val > TEMP_MAX \/ val < TEMP_MIN)

\* the body of the target_temperature setter (lines 452-465) on the store
\* st = [p, d] with temperature_units = units; err is None or the error raised
target_temperature_set(st, units, value) ==
    IF units = 1
    THEN LET rec == generate_temperature_record(value)
         IN  IF ~validate_temperature(rec.temSet)
             THEN [p |-> st.p, d |-> st.d, err |-> "ValueError"]
             ELSE LET a == set_property(st, TEMP_SET, rec.temSet)
                      b == set_property(a, TEMP_BIT, rec.temRec)
                  IN  [p |-> b.p, d |-> b.d, err |-> None]
    ELSE IF ~validate_temperature(value)
         THEN [p |-> st.p, d |-> st.d, err |-> "ValueError"]
         ELSE LET a == set_property(st, TEMP_SET, value)
              IN  [p |-> a.p, d |-> a.d, err |-> None]

\* TEMP_TABLE (lines 126-129): one record per Fahrenheit value, ascending
TEMP_TABLE ==
    [i \in 1..(TEMP_MAX_TABLE_F - TEMP_MIN_TABLE_F + 1) |->
        generate_temperature_record(TEMP_MIN_TABLE_F + i - 1)]

\* a reverse lookup that takes the first row of the Celsius value, whatever
\* the bit
convert_to_units_first_row(units, value, bit) ==
    IF units # 1 THEN [val |-> value, err |-> None]
    ELSE IF value = Absent THEN [val |-> 0, err |-> "TypeError"]
    ELSE IF value < TEMP_MIN_TABLE \/ value > TEMP_MAX_TABLE
         THEN [val |-> 0, err |-> "ValueError"]
    ELSE LET matching_temset == SelectSeq(TEMP_TABLE, LAMBDA t : t.temSet = value)
         IN  [val |-> matching_temset[1].f, err |-> None]

\* Device._convert_to_units (lines 430-444); a missing value (None) makes the
\* range comparison raise TypeError
convert_to_units(units, value, bit) ==
    IF units # 1 THEN [val |-> value, err |-> None]
    ELSE IF value = Absent THEN [val |-> 0, err |-> "TypeError"]
    ELSE IF value < TEMP_MIN_TABLE \/ value > TEMP_MAX_TABLE
         THEN [val |-> 0, err |-> "ValueError"]
    ELSE LET matching_temset == SelectSeq(TEMP_TABLE, LAMBDA t : t.temSet = value)
             with_bit == SelectSeq(matching_temset, LAMBDA t : t.temRec = bit)
         IN  [val |-> IF Len(with_bit) > 0 THEN with_bit[1].f
                      ELSE matching_temset[1].f,
              err |-> None]

\* the body of the target_humidity setter (lines 584-590): the inner
\* function validate is defined and never called, so every value is stored
\* as (value - 15) // 5 and no error is raised
target_humidity_set(st, value) ==
    LET a == set_property(st, HUM_SET, (value - 15) \div 5)
    IN  [p |-> a.p, d |-> a.d, err |-> None]

\* int(self.version.split(".")[0]) of current_temperature (line 480) for the
\* versions of the model; 0 stands for the falsy version None
VersionMajor(v) ==
    CASE v = "3.31" -> 3
      [] v = "4.0" -> 4
      [] OTHER -> 0

\* Device.current_temperature (lines 475-489) on the state dev = [p, version]:
\* val is the value returned, src the branch that returned it; a ValueError
\* of the conversion is caught and falls through to target_temperature
current_temperature(dev) ==
    LET prop == get_property(dev.p, TEMP_SENSOR)
        bit == get_property(dev.p, TEMP_BIT)
        units == get_property(dev.p, TEMP_UNIT)
        target == convert_to_units(units, get_property(dev.p, TEMP_SET),
                                   get_property(dev.p, TEMP_BIT))
        fallback == [val |-> target.val, err |-> target.err, src |-> "target"]
    IN  IF prop = Absent THEN fallback
        ELSE IF VersionMajor(dev.version) = 4
        THEN LET r == convert_to_units(units, prop, bit)
             IN  IF r.err # None THEN fallback
                 ELSE [val |-> r.val, err |-> None, src |-> "sensor"]
        ELSE IF prop # 0
        THEN LET r == convert_to_units(units, prop - TEMP_OFFSET, bit)
             IN  IF r.err # None THEN fallback
                 ELSE [val |-> r.val, err |-> None, src |-> "sensor_offset"]
        ELSE fallback

\* a handler that never clears check_version
handle_state_update_rechecking(dev, kw, h) ==
    LET ver1 == IF h # None THEN ParseVersion(h) ELSE dev.version
        props1 == [k \in PropKeys |-> IF k \in DOMAIN kw THEN kw[k] ELSE dev.p[k]]
        check == dev.check_version /\ TEMP_SENSOR \in DOMAIN kw
        temp == get_property(props1, TEMP_SENSOR)
    IN  [p |-> props1,
         d |-> dev.d,
         hid |-> IF h # None THEN h ELSE dev.hid,
         version |-> IF check /\ temp # Absent /\ temp # 0 /\ temp < TEMP_OFFSET
                     THEN "4.0" ELSE ver1,
         check_version |-> dev.check_version]

\* a handler that keeps only the keys of the Props vocabulary
handle_state_update_known(dev, kw, h) ==
    LET ver1 == IF h # None THEN ParseVersion(h) ELSE dev.version
        props1 == [k \in PropKeys |->
                     IF k \in DOMAIN kw /\ k # UNKNOWN_KEY THEN kw[k] ELSE dev.p[k]]
        check == dev.check_version /\ TEMP_SENSOR \in DOMAIN kw
        temp == get_property(props1, TEMP_SENSOR)
    IN  [p |-> props1,
         d |-> dev.d,
         hid |-> IF h # None THEN h ELSE dev.hid,
         version |-> IF check /\ temp # Absent /\ temp # 0 /\ temp < TEMP_OFFSET
                     THEN "4.0" ELSE ver1,
         check_version |-> IF check THEN FALSE ELSE dev.check_version]

\* handle_state_update that also marks the keys it received as dirty
handle_state_update_marking(dev, kw, h) ==
    LET props1 == [k \in PropKeys |-> IF k \in DOMAIN kw THEN kw[k] ELSE dev.p[k]]
        new == DOMAIN kw \ Range(dev.d)
    IN  [p |-> props1,
         d |-> IF new = {} THEN dev.d ELSE Append(dev.d, CHOOSE k \in new : TRUE),
         hid |-> IF h # None THEN h ELSE dev.hid,
         version |-> IF h # None THEN ParseVersion(h) ELSE dev.version,
         check_version |-> dev.check_version]

\* Device.handle_state_update(**kwargs); kw is the wire map without "hid",
\* h the "hid" entry or None. dev = [p, d, hid, version, check_version].
handle_state_update(dev, kw, h) ==
    LET ver1 == IF h # None THEN ParseVersion(h) ELSE dev.version
        props1 == [k \in PropKeys |-> IF k \in DOMAIN kw THEN kw[k] ELSE dev.p[k]]
        check == dev.check_version /\ TEMP_SENSOR \in DOMAIN kw
        temp == get_property(props1, TEMP_SENSOR)
    IN  [p |-> props1,
         d |-> dev.d,
         hid |-> IF h # None THEN h ELSE dev.hid,
         version |-> IF check /\ temp # Absent /\ temp # 0 /\ temp < TEMP_OFFSET
                     THEN "4.0" ELSE ver1,
         check_version |-> IF check THEN FALSE ELSE dev.check_version]

\* a command map that holds the dirty keys and nothing of lines 346-350
BuildCommand_dirty_only(props, d, bp) ==
    [k \in CmdKeys |->
        IF k \in Range(d) THEN props[k]
        ELSE IF k = BUZZER /\ ~bp THEN 1
        ELSE NotSent]

\* the command map push_state_update builds from _dirty (lines 341-354)
BuildCommand(props, d, bp) ==
    [k \in CmdKeys |->
        IF k \in Range(d) THEN props[k]
        ELSE IF k \in {TEMP_BIT, TEMP_UNIT} /\ TEMP_SET \in Range(d) THEN props[k]
        ELSE IF k = BUZZER /\ ~bp THEN 1
        ELSE NotSent]

NoCmd == [k \in CmdKeys |-> NotSent]

\* Device.handle_device_bound: self.device_cipher.key = key
handle_device_bound(cipher, key) == [cipher EXCEPT !.key = key]

\* ------------------------------------------------------------------------
\* Callers and their positions
\* ------------------------------------------------------------------------
Kind(p) == IF p = "bind" THEN "bind" ELSE IF p = "poll" THEN "update" ELSE "push"

IdleTask ==
    [pc |-> "idle", trial |-> None, explicit |-> FALSE, bsent |-> << >>,
     btimed |-> {}, res |-> "none", ret |-> "none", cmd |-> NoCmd]

\* the datagram a step has sent: a wait is entered only by sending
SentBy(p) ==
    CASE task'[p].pc = "bind_wait" -> "bind"
      [] task'[p].pc = "send_wait" -> IF Kind(p) = "push" THEN "command" ELSE "status"
      [] OTHER -> "none"

LastOp(o, p, k, v, i) ==
    [op |-> o, proc |-> p, sent |-> IF p = None THEN "none" ELSE SentBy(p),
     key |-> k, val |-> v, info |-> i]

\* ------------------------------------------------------------------------
\* Coordinator: DeviceDataUpdateCoordinator._async_update_data
\* ------------------------------------------------------------------------
\* const.py, in units of half a polling interval
MAX_ERRORS == 3
UPDATE_INTERVAL == 2
MAX_EXPECTED_RESPONSE_TIME_INTERVAL == 4

\* the threshold test with > in place of >=
ShouldRaise_above(lus, ec) == lus /\ ec > MAX_ERRORS

\* "self.last_update_success and self._error_count >= MAX_ERRORS" (lines 100, 127)
ShouldRaise(lus, ec) == lus /\ ec >= MAX_ERRORS

\* lines 110-113: the response is older than the expected interval
IsStale(t, lrt) ==
    UPDATE_INTERVAL # 0 /\ t - lrt >= MAX_EXPECTED_RESPONSE_TIME_INTERVAL

\* the success branch without the reset of line 126
SuccessCount_no_reset(c, t) ==
    IF IsStale(t, c.lrt)
    THEN IF c.let = NoTime \/ t - UPDATE_INTERVAL >= c.let
         THEN [ec |-> c.ec + 1, let |-> t]
         ELSE [ec |-> c.ec, let |-> c.let]
    ELSE [ec |-> c.ec, let |-> c.let]

\* the success branch without the test of _last_error_time of lines 114-116
SuccessCount_unguarded(c, t) ==
    IF IsStale(t, c.lrt)
    THEN [ec |-> c.ec + 1, let |-> t]
    ELSE [ec |-> 0, let |-> c.let]

\* lines 114-118 and 125-126: the error count and last error time after a
\* cycle whose update_state did not raise
SuccessCount(c, t) ==
    IF IsStale(t, c.lrt)
    THEN IF c.let = NoTime \/ t - UPDATE_INTERVAL >= c.let
         THEN [ec |-> c.ec + 1, let |-> t]
         ELSE [ec |-> c.ec, let |-> c.let]
    ELSE [ec |-> 0, let |-> c.let]

\* a read cycle that counts DeviceNotBoundError as one more error
async_update_data_counting(c, r, t) ==
    IF r = "notbound"
    THEN [ec |-> c.ec + 1, lrt |-> c.lrt, let |-> c.let, lus |-> FALSE,
          raised |-> TRUE, outcome |-> "notbound"]
    ELSE IF r = "timeout"
    THEN IF ShouldRaise(c.lus, c.ec + 1)
         THEN [ec |-> c.ec + 1, lrt |-> c.lrt, let |-> c.let, lus |-> FALSE,
               raised |-> TRUE, outcome |-> "timeout"]
         ELSE [ec |-> c.ec + 1, lrt |-> t, let |-> c.let, lus |-> TRUE,
               raised |-> FALSE, outcome |-> "timeout"]
    ELSE LET n == SuccessCount(c, t)
             o == IF IsStale(t, c.lrt) THEN "stale" ELSE "fresh"
         IN  IF ShouldRaise(c.lus, n.ec)
             THEN [ec |-> n.ec, lrt |-> c.lrt, let |-> n.let, lus |-> FALSE,
                   raised |-> TRUE, outcome |-> o]
             ELSE [ec |-> n.ec, lrt |-> t, let |-> n.let, lus |-> TRUE,
                   raised |-> FALSE, outcome |-> o]

\* One read cycle, given how update_state ended (r) at time t.
\* c = [ec, lrt, let, lus]; the result adds whether UpdateFailed was raised.
\* last_update_success is what DataUpdateCoordinator records for the cycle.
async_update_data(c, r, t) ==
    IF r = "notbound"
    THEN [ec |-> c.ec, lrt |-> c.lrt, let |-> c.let, lus |-> FALSE,
          raised |-> TRUE, outcome |-> "notbound"]
    ELSE IF r = "timeout"
    THEN IF ShouldRaise(c.lus, c.ec + 1)
         THEN [ec |-> c.ec + 1, lrt |-> c.lrt, let |-> c.let, lus |-> FALSE,
               raised |-> TRUE, outcome |-> "timeout"]
         ELSE [ec |-> c.ec + 1, lrt |-> t, let |-> c.let, lus |-> TRUE,
               raised |-> FALSE, outcome |-> "timeout"]
    ELSE LET n == SuccessCount(c, t)
             o == IF IsStale(t, c.lrt) THEN "stale" ELSE "fresh"
         IN  IF ShouldRaise(c.lus, n.ec)
             THEN [ec |-> n.ec, lrt |-> c.lrt, let |-> n.let, lus |-> FALSE,
                   raised |-> TRUE, outcome |-> o]
             ELSE [ec |-> n.ec, lrt |-> t, let |-> n.let, lus |-> TRUE,
                   raised |-> FALSE, outcome |-> o]

Coord == [ec |-> error_count, lrt |-> last_response_time,
          let |-> last_error_time, lus |-> last_update_success]

\* the length of the run of time-outs that started from a healthy coordinator
NextRun(ec, lus, wasTimeout) ==
    IF ec = 0 /\ lus THEN 0
    ELSE IF wasTimeout /\ run >= 0 THEN run + 1
    ELSE -1

\* the time-outs since the last fresh successful cycle, -1 when another kind
\* of cycle or a state update came in between
NextFresh(outcome) ==
    IF outcome = "fresh" THEN 0
    ELSE IF outcome = "timeout" /\ cycle.fresh >= 0 THEN cycle.fresh + 1
    ELSE -1

\* the read cycle of the coordinator ends with update_state's result r
CycleEnd(r) ==
    LET n == async_update_data(Coord, r, now)
    IN  /\ error_count' = n.ec
        /\ last_response_time' = n.lrt
        /\ last_error_time' = n.let
        /\ last_update_success' = n.lus
        /\ cycle' = [outcome |-> n.outcome, raised |-> n.raised,
                     fresh |-> NextFresh(n.outcome),
                     cleared |-> IF n.outcome = "fresh" THEN error_count
                                 ELSE IF NextFresh(n.outcome) >= 0 THEN cycle.cleared
                                 ELSE 0]
        /\ run' = NextRun(n.ec, n.lus, r = "timeout")

\* DeviceDataUpdateCoordinator.push_state_update (lines 135-144): what its
\* caller gets when Device.push_state_update ends with r; DeviceTimeoutError
\* is caught and logged, any other error propagates
coordinator_push(r) ==
    IF r = "notbound" THEN "DeviceNotBoundError" ELSE "returned"

\* a coordinator push that counts a time-out as a read error
PushEnd_counting(r) ==
    /\ error_count' = IF r = "timeout" /\ error_count < MaxErrorCount
                      THEN error_count + 1 ELSE error_count
    /\ UNCHANGED <<last_response_time, last_error_time, last_update_success,
                   cycle, run>>

\* DeviceDataUpdateCoordinator.push_state_update (lines 135-144): the effect
\* of a finished push on the coordinator
PushEnd(r) == UNCHANGED coordVars

\* an operation of caller p ends with result r (t is its task record)
Finish(p, t, r) ==
    /\ task' = [task EXCEPT ![p] =
                  [t EXCEPT !.pc = "idle", !.trial = None, !.res = r,
                            !.ret = IF Kind(p) = "push" THEN coordinator_push(r)
                                    ELSE "none"]]
    /\ IF p = "poll" THEN CycleEnd(r)
       ELSE IF Kind(p) = "push" THEN PushEnd(r)
       ELSE UNCHANGED coordVars

\* ------------------------------------------------------------------------
\* Binding, update_state and push_state_update, one step per suspension
\* ------------------------------------------------------------------------
\* Device.__bind_internal: send the bind request under cipher c, then wait
bind_internal(p, t, c) ==
    /\ bindReqs' = bindReqs \cup {c}
    /\ task' = [task EXCEPT ![p] =
                  [t EXCEPT !.pc = "bind_wait", !.trial = c, !.bsent = Append(@, c)]]
    /\ UNCHANGED coordVars

\* bind that makes its first trial under CipherV2
bind_negotiate_v2_first(p, t, cipher) ==
    IF ~device_info
    THEN Finish(p, t, "notbound") /\ UNCHANGED <<transport, bindReqs>>
    ELSE /\ transport' = TRUE
         /\ bind_internal(p, [t EXCEPT !.explicit = (cipher # None)],
                          IF cipher = None THEN V2 ELSE cipher)

\* Device.bind without a key (lines 232-252), up to its first wait
bind_negotiate(p, t, cipher) ==
    IF ~device_info
    THEN Finish(p, t, "notbound") /\ UNCHANGED <<transport, bindReqs>>
    ELSE /\ transport' = TRUE
         /\ bind_internal(p, [t EXCEPT !.explicit = (cipher # None)],
                          IF cipher = None THEN V1 ELSE cipher)

\* update_state lines 292-299: send the status request
update_send(p, t) ==
    /\ task' = [task EXCEPT ![p] = [t EXCEPT !.pc = "send_wait", !.trial = None]]
    /\ UNCHANGED coordVars

\* push_state_update lines 341-359: build the command, clear _dirty, send
push_send(p, t) ==
    /\ task' = [task EXCEPT ![p] =
                  [t EXCEPT !.pc = "send_wait", !.trial = None,
                            !.cmd = BuildCommand(properties, dirty, beep)]]
    /\ dirty' = << >>
    /\ UNCHANGED coordVars

\* bind() has returned to the operation that awaited it
AfterBind(p, t) ==
    CASE Kind(p) = "bind" -> Finish(p, t, "ok") /\ UNCHANGED dirty
      [] Kind(p) = "update" -> update_send(p, t) /\ UNCHANGED dirty
      [] OTHER -> push_send(p, t)

\* set_property(name, value), called directly or by a plain typed setter
\* (set_property(Props.X, int(value)))
Setter(k, v) ==
    /\ LET r == set_property([p |-> properties, d |-> dirty], k, v)
       IN  properties' = r.p /\ dirty' = r.d
    /\ written' = written \cup {k}
    /\ last' = LastOp("set", None, k, v,
                      IF properties[k] = v THEN "same"
                      ELSE IF k \in Range(dirty) THEN "dirty" ELSE "clean")
    /\ UNCHANGED <<device_cipher, device_info, transport, ready, hid, version,
                   check_version, beep, bindReqs, task, now>>
    /\ UNCHANGED coordVars

\* the target_temperature setter (lines 452-465): validate, then store
TargetTemperature(value) ==
    /\ LET r == target_temperature_set([p |-> properties, d |-> dirty],
                                       get_property(properties, TEMP_UNIT), value)
       IN  /\ properties' = r.p
           /\ dirty' = r.d
           /\ written' = IF r.err # None THEN written
                         ELSE IF get_property(properties, TEMP_UNIT) = 1
                              THEN written \cup {TEMP_SET, TEMP_BIT}
                              ELSE written \cup {TEMP_SET}
           /\ last' = LastOp("set_temp", None, TEMP_SET, value,
                             IF r.err # None THEN r.err ELSE "ok")
    /\ UNCHANGED <<device_cipher, device_info, transport, ready, hid, version,
                   check_version, beep, bindReqs, task, now>>
    /\ UNCHANGED coordVars

\* a caller converts temp_f with generate_temperature_record and stores the
\* pair with set_property, as the Fahrenheit branch of the setter does
RecordTemperature(temp_f) ==
    /\ LET rec == generate_temperature_record(temp_f)
           a == set_property([p |-> properties, d |-> dirty], TEMP_SET, rec.temSet)
           b == set_property(a, TEMP_BIT, rec.temRec)
       IN  properties' = b.p /\ dirty' = b.d
    /\ written' = written \cup {TEMP_SET, TEMP_BIT}
    /\ last' = LastOp("record", None, TEMP_SET, temp_f, "stored")
    /\ UNCHANGED <<device_cipher, device_info, transport, ready, hid, version,
                   check_version, beep, bindReqs, task, now>>
    /\ UNCHANGED coordVars

\* the target_temperature getter (lines 446-450)
TargetTemperatureGet ==
    /\ LET r == convert_to_units(get_property(properties, TEMP_UNIT),
                                 get_property(properties, TEMP_SET),
                                 get_property(properties, TEMP_BIT))
       IN  last' = LastOp("get_temp", None, TEMP_SET, r.val,
                          IF r.err # None THEN r.err ELSE "ok")
    /\ UNCHANGED <<devVars, bindReqs, task, written, now>>
    /\ UNCHANGED coordVars

\* the current_temperature getter (lines 475-489)
CurrentTemperatureGet ==
    /\ LET r == current_temperature([p |-> properties, version |-> version])
       IN  last' = LastOp("get_current", None, TEMP_SENSOR, r.val, r.src)
    /\ UNCHANGED <<devVars, bindReqs, task, written, now>>
    /\ UNCHANGED coordVars

\* the target_humidity setter (lines 584-590)
TargetHumidity(value) ==
    /\ LET r == target_humidity_set([p |-> properties, d |-> dirty], value)
       IN  /\ properties' = r.p
           /\ dirty' = r.d
           /\ written' = IF r.err # None THEN written ELSE written \cup {HUM_SET}
           /\ last' = LastOp("set_hum", None, HUM_SET, value,
                             IF r.err # None THEN r.err ELSE "ok")
    /\ UNCHANGED <<device_cipher, device_info, transport, ready, hid, version,
                   check_version, beep, bindReqs, task, now>>
    /\ UNCHANGED coordVars

\* a typed getter: get_property reads and changes nothing
Getter(k) ==
    /\ last' = LastOp("get", None, k, 0, "read")
    /\ UNCHANGED <<devVars, bindReqs, task, written, now>>
    /\ UNCHANGED coordVars

\* a status response arrives and is handed to handle_state_update
StatusResponse(kw, h) ==
    /\ device_cipher # NoCipher
    /\ LET n == handle_state_update(
                  [p |-> properties, d |-> dirty, hid |-> hid, version |-> version,
                   check_version |-> check_version], kw, h)
       IN  /\ properties' = n.p
           /\ dirty' = n.d
           /\ hid' = n.hid
           /\ version' = n.version
           /\ check_version' = n.check_version
    /\ last' = LastOp("status", None, None, Cardinality(DOMAIN kw), "handled")
    /\ UNCHANGED <<device_cipher, device_info, transport, ready, beep,
                   bindReqs, task, written, now>>
    /\ UNCHANGED coordVars

\* a push that binds an unbound device before it looks at _dirty
PushStart_binding(p) ==
    /\ Kind(p) = "push"
    /\ task[p].pc = "idle"
    /\ IF device_cipher = NoCipher
       THEN bind_negotiate(p, IdleTask, None) /\ UNCHANGED dirty
       ELSE IF dirty = << >>
       THEN /\ Finish(p, IdleTask, "noop")
            /\ UNCHANGED <<dirty, transport, bindReqs>>
       ELSE push_send(p, IdleTask) /\ UNCHANGED <<transport, bindReqs>>
    /\ last' = LastOp("push", p, None, Len(dirty), "start")
    /\ UNCHANGED <<properties, device_cipher, device_info, ready, hid, version,
                   check_version, beep, written, now>>

\* Device.push_state_update is called (lines 333-337)
PushStart(p) ==
    /\ Kind(p) = "push"
    /\ task[p].pc = "idle"
    /\ IF dirty = << >>
       THEN /\ Finish(p, IdleTask, "noop")
            /\ UNCHANGED <<dirty, transport, bindReqs>>
       ELSE IF device_cipher = NoCipher
       THEN bind_negotiate(p, IdleTask, None) /\ UNCHANGED dirty
       ELSE push_send(p, IdleTask) /\ UNCHANGED <<transport, bindReqs>>
    /\ last' = LastOp("push", p, None, Len(dirty), "start")
    /\ UNCHANGED <<properties, device_cipher, device_info, ready, hid, version,
                   check_version, beep, written, now>>

\* Device.update_state is called by the coordinator's read cycle (lines 289-299)
UpdateStart(p) ==
    /\ Kind(p) = "update"
    /\ task[p].pc = "idle"
    /\ error_count < MaxErrorCount
    /\ IF device_cipher = NoCipher
       THEN bind_negotiate(p, IdleTask, None)
       ELSE update_send(p, IdleTask) /\ UNCHANGED <<transport, bindReqs>>
    /\ last' = LastOp("update", p, None, 0, "start")
    /\ UNCHANGED <<properties, dirty, device_cipher, device_info, ready, hid,
                   version, check_version, beep, written, now>>

\* bind that ignores the key it is given and always negotiates
BindCall_negotiating(p, key, cipher) ==
    /\ Kind(p) = "bind"
    /\ task[p].pc = "idle"
    /\ bind_negotiate(p, IdleTask, cipher)
    /\ last' = LastOp("bind", p, key, 0, IF cipher = None THEN "nocipher" ELSE cipher)
    /\ UNCHANGED <<properties, dirty, device_cipher, device_info, ready, hid,
                   version, check_version, beep, written, now>>

\* Device.bind(key, cipher) is called directly (lines 224-252)
BindCall(p, key, cipher) ==
    /\ Kind(p) = "bind"
    /\ task[p].pc = "idle"
    /\ IF key \notin {None, EmptyKey}
       THEN IF cipher = None
            THEN /\ Finish(p, IdleTask, "valueerror")
                 /\ UNCHANGED <<device_cipher, transport, bindReqs>>
            ELSE /\ device_cipher' = [variant |-> cipher, key |-> key]
                 /\ Finish(p, IdleTask, "ok")
                 /\ UNCHANGED <<transport, bindReqs>>
       ELSE bind_negotiate(p, IdleTask, cipher) /\ UNCHANGED device_cipher
    /\ last' = LastOp("bind", p, key, 0, IF cipher = None THEN "nocipher" ELSE cipher)
    /\ UNCHANGED <<properties, dirty, device_info, ready, hid, version,
                   check_version, beep, written, now>>

\* a time-out of a CipherV1 trial that is followed by a CipherV2 trial also
\* when the caller chose the cipher
BindWaitTimeout_always_fallback(p) ==
    /\ task[p].pc = "bind_wait"
    /\ LET t == [task[p] EXCEPT !.btimed = @ \cup {task[p].trial}]
       IN  IF t.trial = V1
           THEN bind_internal(p, t, V2)
           ELSE Finish(p, t, "timeout") /\ UNCHANGED bindReqs
    /\ last' = LastOp("bind_timeout", p, task[p].trial, 0, "timeout")
    /\ UNCHANGED <<devVars, written, now>>

\* a wait with no time limit: the expiry of the timer ends nothing
BindWaitTimeout_unbounded(p) ==
    /\ task[p].pc = "bind_wait"
    /\ UNCHANGED <<devVars, bindReqs, task, written, now>>
    /\ UNCHANGED coordVars
    /\ last' = LastOp("bind_timeout", p, task[p].trial, 0, "timeout")

\* a time-out of the CipherV1 trial that is not followed by a CipherV2 trial
BindWaitTimeout_no_fallback(p) ==
    /\ task[p].pc = "bind_wait"
    /\ Finish(p, [task[p] EXCEPT !.btimed = @ \cup {task[p].trial}], "timeout")
    /\ last' = LastOp("bind_timeout", p, task[p].trial, 0, "timeout")
    /\ UNCHANGED <<devVars, bindReqs, written, now>>

\* the wait of __bind_internal (or its send) times out (lines 250-255)
BindWaitTimeout(p) ==
    /\ task[p].pc = "bind_wait"
    /\ LET t == [task[p] EXCEPT !.btimed = @ \cup {task[p].trial}]
       IN  IF ~t.explicit /\ t.trial = V1
           THEN bind_internal(p, t, V2)
           ELSE Finish(p, t, "timeout") /\ UNCHANGED bindReqs
    /\ last' = LastOp("bind_timeout", p, task[p].trial, 0, "timeout")
    /\ UNCHANGED <<devVars, written, now>>

\* a bind whose caller goes on to send although no cipher was set
BindWaitDone_sending(p) ==
    /\ task[p].pc = "bind_wait"
    /\ ready
    /\ AfterBind(p, task[p])
    /\ last' = LastOp("bind_done", p, task[p].trial, 0, "ready")
    /\ UNCHANGED <<properties, device_cipher, device_info, transport, ready, hid,
                   version, check_version, beep, bindReqs, written, now>>

\* the ready event is set: the wait of __bind_internal returns (lines 257-260)
BindWaitDone(p) ==
    /\ task[p].pc = "bind_wait"
    /\ ready
    /\ IF device_cipher = NoCipher
       THEN Finish(p, task[p], "notbound") /\ UNCHANGED dirty
       ELSE AfterBind(p, task[p])
    /\ last' = LastOp("bind_done", p, task[p].trial, 0, "ready")
    /\ UNCHANGED <<properties, device_cipher, device_info, transport, ready, hid,
                   version, check_version, beep, bindReqs, written, now>>

\* a bind confirmation for a request sent under variant c arrives; key is
\* None when the confirmation designates no key
BindConfirm(c, key) ==
    /\ c \in bindReqs
    /\ ready' = TRUE
    /\ device_cipher' =
         IF key = None THEN device_cipher
         ELSE handle_device_bound([variant |-> c, key |-> GenericKey], key)
    /\ last' = LastOp("bind_confirm", None, key, 0, c)
    /\ UNCHANGED <<properties, dirty, device_info, transport, hid, version,
                   check_version, beep, bindReqs, task, written, now>>
    /\ UNCHANGED coordVars

\* the send of a status request or command completes
SendDone(p) ==
    /\ task[p].pc = "send_wait"
    /\ Finish(p, task[p], "ok")
    /\ last' = LastOp("send_done", p, None, 0, "ok")
    /\ UNCHANGED <<devVars, bindReqs, written, now>>

\* the send raises asyncio.TimeoutError: DeviceTimeoutError (lines 301, 361)
SendTimeout(p) ==
    /\ task[p].pc = "send_wait"
    /\ Finish(p, task[p], "timeout")
    /\ last' = LastOp("send_timeout", p, None, 0, "timeout")
    /\ UNCHANGED <<devVars, bindReqs, written, now>>

\* ------------------------------------------------------------------------
\* Coordinator events
\* ------------------------------------------------------------------------
\* a status handler that records the time and leaves the error count
DeviceStateUpdated_keeping ==
    /\ device_cipher # NoCipher
    /\ error_count' = error_count
    /\ last_response_time' = now
    /\ last_update_success' = TRUE
    /\ run' = NextRun(error_count, TRUE, FALSE)
    /\ last' = LastOp("state_updated", None, None, 0, "handled")
    /\ cycle' = [cycle EXCEPT !.fresh = -1, !.cleared = 0]
    /\ UNCHANGED <<devVars, bindReqs, task, written, now, last_error_time>>

\* DeviceDataUpdateCoordinator.device_state_updated (lines 78-83); publishing
\* the data through async_set_updated_data marks the last update successful
DeviceStateUpdated ==
    /\ device_cipher # NoCipher
    /\ error_count' = 0
    /\ last_response_time' = now
    /\ last_update_success' = TRUE
    /\ run' = NextRun(0, TRUE, FALSE)
    /\ last' = LastOp("state_updated", None, None, 0, "handled")
    /\ cycle' = [cycle EXCEPT !.fresh = -1, !.cleared = 0]
    /\ UNCHANGED <<devVars, bindReqs, task, written, now, last_error_time>>

\* time passes
Tick ==
    /\ now < MaxTime
    /\ now' = now + 1
    /\ last' = LastOp("tick", None, None, 0, "time")
    /\ UNCHANGED <<devVars, bindReqs, task, written>>
    /\ UNCHANGED coordVars

\* ------------------------------------------------------------------------
\* Specifications
\* ------------------------------------------------------------------------
\* Device.__init__ (lines 185-198) and DeviceDataUpdateCoordinator.__init__
\* (lines 67-69)
InitWith(info) ==
    /\ properties = [k \in PropKeys |-> Absent]
    /\ dirty = << >>
    /\ device_cipher = NoCipher
    /\ device_info = info
    /\ transport = FALSE
    /\ ready = FALSE
    /\ hid = None
    /\ version = None
    /\ check_version = TRUE
    /\ beep = FALSE
    /\ bindReqs = {}
    /\ task = [p \in Procs |-> IdleTask]
    /\ last = [op |-> "init", proc |-> None, sent |-> "none", key |-> None,
               val |-> 0, info |-> "init"]
    /\ written = {}
    /\ error_count = 0
    /\ last_response_time = 0
    /\ last_error_time = NoTime
    /\ last_update_success = TRUE
    /\ now = 0
    /\ cycle = [outcome |-> "none", raised |-> FALSE, fresh |-> -1, cleared |-> 0]
    /\ run = 0

\* the wire maps a status response can carry for the plain setter keys
StatusMaps == UNION {[S -> Vals] : S \in SUBSET SetterKeys}

\* Property store, dirty tracking and push on a Device created on discovery
Init == InitWith(TRUE)

Next ==
    \/ \E k \in SetterKeys, v \in Vals : Setter(k, v)
    \/ \E k \in SetterKeys : Getter(k)
    \/ \E kw \in StatusMaps : StatusResponse(kw, None)
    \/ PushStart("push1")
    \/ BindWaitTimeout("push1")
    \/ BindWaitDone("push1")
    \/ \E c \in Variants, k \in {"k1", None} : BindConfirm(c, k)
    \/ SendDone("push1")
    \/ SendTimeout("push1")

Spec == Init /\ [][Next]_vars

\* Binding in both modes
InitBind == \E info \in BOOLEAN : InitWith(info)

NextBind ==
    \/ \E key \in DeviceKeys \cup {None, EmptyKey}, c \in Variants \cup {None} :
          BindCall("bind", key, c)
    \/ BindWaitTimeout("bind")
    \/ BindWaitDone("bind")
    \/ \E c \in Variants, k \in DeviceKeys \cup {None} : BindConfirm(c, k)

SpecBind == InitBind /\ [][NextBind]_vars

\* asyncio.wait_for(task, timeout=self._bind_timeout): the timer of a pending
\* wait expires after _bind_timeout seconds (10 by default), so its expiry is
\* weakly fair; nothing is assumed of the device
SpecBindFair == SpecBind /\ WF_vars(BindWaitTimeout("bind"))

\* The polling coordinator and its read cycle
InitCoord == \E info \in BOOLEAN : InitWith(info)

NextCoord ==
    \/ UpdateStart("poll")
    \/ BindWaitTimeout("poll")
    \/ BindWaitDone("poll")
    \/ \E c \in Variants, k \in DeviceKeys \cup {None} : BindConfirm(c, k)
    \/ SendDone("poll")
    \/ SendTimeout("poll")
    \/ DeviceStateUpdated
    \/ Tick

SpecCoord == InitCoord /\ [][NextCoord]_vars

\* Pushes through the coordinator next to its read cycle
InitPush == InitWith(TRUE)

NextPush ==
    \/ \E v \in Vals : Setter(POWER, v)
    \/ PushStart("push1")
    \/ UpdateStart("poll")
    \/ \E p \in {"push1", "poll"} : BindWaitTimeout(p)
    \/ \E p \in {"push1", "poll"} : BindWaitDone(p)
    \/ \E c \in Variants, k \in {"k1", None} : BindConfirm(c, k)
    \/ \E p \in {"push1", "poll"} : SendDone(p)
    \/ \E p \in {"push1", "poll"} : SendTimeout(p)

SpecPush == InitPush /\ [][NextPush]_vars

\* The temperature setters of one Device, in both units
InitTemp == InitWith(TRUE)

NextTemp ==
    \/ \E u \in {0, 1} : Setter(TEMP_UNIT, u)
    \/ \E v \in TempInputs : TargetTemperature(v)

SpecTemp == InitTemp /\ [][NextTemp]_vars

\* The temperature table: every row is recorded and looked up again
InitTable == InitWith(TRUE)

NextTable ==
    \/ \E u \in {0, 1} : Setter(TEMP_UNIT, u)
    \/ \E f \in TableInputs : RecordTemperature(f)
    \/ TargetTemperatureGet

SpecTable == InitTable /\ [][NextTable]_vars

\* Status responses and pushes that carry a key outside Props
\* (7 is a value no setter of the model writes)
WireVals == {0, 7}

WireMaps == UNION {[S -> WireVals] : S \in SUBSET {POWER, UNKNOWN_KEY}}

InitWire == InitWith(TRUE)

NextWire ==
    \/ \E v \in Vals : Setter(UNKNOWN_KEY, v)
    \/ \E kw \in WireMaps : StatusResponse(kw, None)
    \/ PushStart("push1")
    \/ BindWaitDone("push1")
    \/ \E c \in Variants : BindConfirm(c, "k1")
    \/ SendDone("push1")
    \/ SendTimeout("push1")

SpecWire == InitWire /\ [][NextWire]_vars

\* Target temperatures in both units, pushed to the device
TempPushInputs == {20, 46, 47, 68}

InitTempPush == InitWith(TRUE)

NextTempPush ==
    \/ \E u \in {0, 1} : Setter(TEMP_UNIT, u)
    \/ \E v \in TempPushInputs : TargetTemperature(v)
    \/ PushStart("push1")
    \/ BindWaitDone("push1")
    \/ \E c \in Variants : BindConfirm(c, "k1")
    \/ SendDone("push1")
    \/ SendTimeout("push1")

SpecTempPush == InitTempPush /\ [][NextTempPush]_vars

\* Status responses with the sensor temperature and the firmware id
SensorVals == {0, 25, 65}

SensorMaps ==
    {kw \in UNION {[S -> SensorVals \cup {20}] : S \in SUBSET {TEMP_SENSOR, TEMP_SET}} :
        /\ TEMP_SENSOR \in DOMAIN kw => kw[TEMP_SENSOR] \in SensorVals
        /\ TEMP_SET \in DOMAIN kw => kw[TEMP_SET] = 20}

InitSensor == InitWith(TRUE)

NextSensor ==
    \/ \E c \in Variants : BindCall("bind", "k1", c)
    \/ \E kw \in SensorMaps, h \in Hids \cup {None} : StatusResponse(kw, h)
    \/ CurrentTemperatureGet

SpecSensor == InitSensor /\ [][NextSensor]_vars

\* Two push callers on one Device, a setter that writes 1 and status
\* responses that report 0
SetVal == 1
ReportedVal == 0

OverlapMaps == UNION {[S -> {ReportedVal}] : S \in SUBSET {POWER, MODE}}

InitOverlap == InitWith(TRUE)

NextOverlap ==
    \/ \E k \in {POWER, MODE} : Setter(k, SetVal)
    \/ \E kw \in OverlapMaps : StatusResponse(kw, None)
    \/ \E p \in {"push1", "push2"} : PushStart(p)
    \/ \E p \in {"push1", "push2"} : BindWaitDone(p)
    \/ \E c \in Variants : BindConfirm(c, "k1")
    \/ \E p \in {"push1", "push2"} : SendDone(p)
    \/ \E p \in {"push1", "push2"} : SendTimeout(p)

SpecOverlap == InitOverlap /\ [][NextOverlap]_vars

\* The humidity setter of one Device next to a plain setter
InitHum == InitWith(TRUE)

NextHum ==
    \/ \E v \in HumInputs : TargetHumidity(v)
    \/ \E v \in Vals : Setter(POWER, v)

SpecHum == InitHum /\ [][NextHum]_vars

\* ------------------------------------------------------------------------
\* Properties: dirty tracking (specification Spec)
\* ------------------------------------------------------------------------
Pushers == {p \in Procs : Kind(p) = "push"}

\* C1: every push_state_update attempt that started with a non-empty DirtySet
\* and ended in success or in a time-out leaves DirtySet empty.
C1_PushLeavesDirtyEmpty ==
    [][\A p \in Pushers :
          (task[p].pc # "idle" /\ task'[p].pc = "idle"
             /\ task'[p].res \in {"ok", "timeout"})
          => dirty' = << >>]_vars

\* C2: DirtySet never holds a key more than once, whatever setters, status
\* responses and pushes have run.
C2_DirtyHoldsNoDuplicate ==
    \A i, j \in 1..Len(dirty) : i # j => dirty[i] # dirty[j]

\* a key that was already dirty has been set to yet another value
C2_Witness ==
    /\ last.op = "set"
    /\ last.info = "dirty"
    /\ last.key \in Range(dirty)
    /\ properties[last.key] = last.val

\* C3: set_property(name, v) called while the stored value of name equals v
\* changes neither PropertyStore nor DirtySet.
C3_SetSameValueIsNoOp ==
    [][(last'.op = "set" /\ properties[last'.key] = last'.val)
          => (properties' = properties /\ dirty' = dirty)]_vars

\* a setter was called with the stored value of a key that is not dirty
C3_Witness ==
    /\ last.op = "set"
    /\ last.info = "same"
    /\ last.key \notin Range(dirty)
    /\ properties[last.key] = last.val

\* C4: DirtySet is a subset of the keys written through a setter, and neither
\* a getter nor the handling of a status response adds a key to it.
C4_DirtyOnlyFromSetters ==
    [][/\ Range(dirty') \subseteq written'
       /\ (last'.op \in {"get", "status"} => Range(dirty') \subseteq Range(dirty))]_vars

\* a status response has stored a key that no setter ever wrote
C4_Witness ==
    /\ last.op = "status"
    /\ last.val >= 1
    /\ \E k \in SetterKeys : properties[k] # Absent /\ k \notin written
    /\ dirty # << >>

\* ------------------------------------------------------------------------
\* Properties: binding (specification SpecBind)
\* ------------------------------------------------------------------------
\* C5: once the Device's cipher is set, no later operation changes its key or
\* its variant.
C5_CipherNeverChanges ==
    [][device_cipher # NoCipher => device_cipher' = device_cipher]_vars

\* C6: bind() with no key and no cipher sends its first request under
\* CipherV1, one under CipherV2 only after the V1 trial timed out, and fails
\* with DeviceTimeoutError when the V2 trial times out too.
C6_BindTriesV1ThenV2 ==
    \A p \in Procs :
       (~task[p].explicit /\ task[p].bsent # << >>) =>
          /\ task[p].bsent \in {<<V1>>, <<V1, V2>>}
          /\ (Len(task[p].bsent) = 2 => V1 \in task[p].btimed)
          /\ (V2 \in task[p].btimed =>
                task[p].pc = "idle" /\ task[p].res = "timeout")
          /\ (task[p].res = "timeout" => task[p].btimed = {V1, V2})

\* a bind() with no arguments has failed after both trials timed out
C6_Witness ==
    /\ task["bind"].pc = "idle"
    /\ ~task["bind"].explicit
    /\ task["bind"].bsent = <<V1, V2>>
    /\ task["bind"].btimed = {V1, V2}
    /\ task["bind"].res = "timeout"
    /\ last.op = "bind_timeout"

\* C7 as stated: after a bind attempt under V1 failed with a time-out, the
\* next bind attempt made with no explicit cipher starts with V2.
C7_NextBindStartsWithV2 ==
    [][\A p \in Procs :
          (/\ task[p].pc = "idle"
           /\ task[p].res = "timeout"
           /\ task[p].bsent = <<V1>>
           /\ task'[p].pc = "bind_wait"
           /\ ~task'[p].explicit)
          => task'[p].bsent[1] = V2]_vars

\* C7 amended: inside a bind() made with no explicit cipher a time-out of the
\* V1 trial is followed by the V2 trial of that call, while every new bind()
\* made with no explicit cipher starts with V1 again.
C7_FallbackWithinOneBind ==
    [][\A p \in Procs :
          /\ (/\ task[p].pc = "bind_wait"
              /\ task[p].trial = V1
              /\ ~task[p].explicit
              /\ V1 \in task'[p].btimed)
             => (/\ task'[p].pc = "bind_wait"
                 /\ task'[p].trial = V2
                 /\ task'[p].bsent = <<V1, V2>>)
          /\ (/\ task[p].pc = "idle"
              /\ task'[p].pc = "bind_wait"
              /\ ~task'[p].explicit)
             => task'[p].bsent = <<V1>>]_vars

\* the V1 trial of a bind() with no arguments timed out and V2 is on trial
C7_Witness ==
    /\ last.op = "bind_timeout"
    /\ last.key = V1
    /\ last.sent = "bind"
    /\ ~task["bind"].explicit
    /\ task["bind"].pc = "bind_wait"
    /\ task["bind"].trial = V2

\* C8: bind(key, cipher) with a key and a cipher succeeds at once without
\* network activity (no transport opened, no datagram sent, no wait) and
\* leaves the device cipher that variant carrying that key.
C8_KeyedBindIsLocal ==
    [][\A p \in Procs :
          (/\ last'.op = "bind" /\ last'.proc = p
           /\ last'.key \in DeviceKeys
           /\ last'.info \in Variants)
          => (/\ task'[p].pc = "idle"
              /\ task'[p].res = "ok"
              /\ device_cipher' = [variant |-> last'.info, key |-> last'.key]
              /\ transport' = transport
              /\ bindReqs' = bindReqs
              /\ ready' = ready
              /\ last'.sent = "none")]_vars

\* a keyed bind has completed on a Device that never opened a transport
C8_Witness ==
    /\ last.op = "bind"
    /\ last.key \in DeviceKeys
    /\ last.info \in Variants
    /\ device_cipher = [variant |-> last.info, key |-> last.key]
    /\ task["bind"].res = "ok"
    /\ ~transport
    /\ bindReqs = {}

\* ------------------------------------------------------------------------
\* Properties: read-path health (specification SpecCoord)
\* ------------------------------------------------------------------------
\* C9: from a healthy coordinator (error count 0, last update successful), in
\* a run of consecutive read time-outs every cycle before the MAX_ERRORS-th
\* returns without failure and the MAX_ERRORS-th raises UpdateFailed.
C9_FailureOnNthTimeout ==
    run \in 1..MAX_ERRORS =>
       /\ cycle.outcome = "timeout"
       /\ error_count = run
       /\ (cycle.raised <=> run = MAX_ERRORS)
       /\ (last_update_success <=> run < MAX_ERRORS)

\* the MAX_ERRORS-th consecutive time-out has raised UpdateFailed
C9_Witness ==
    /\ run = MAX_ERRORS
    /\ cycle.outcome = "timeout"
    /\ cycle.raised
    /\ ~last_update_success

\* C10: a successful, non-stale read cycle between time-outs resets the error
\* count to zero, and failure is then reported again only by the
\* MAX_ERRORS-th of the consecutive time-outs that follow it.
C10_FreshSuccessResetsCount ==
    /\ cycle.outcome = "fresh" =>
          (error_count = 0 /\ ~cycle.raised /\ last_update_success)
    /\ cycle.fresh \in 1..MAX_ERRORS =>
          /\ cycle.outcome = "timeout"
          /\ error_count = cycle.fresh
          /\ (cycle.raised <=> cycle.fresh = MAX_ERRORS)

\* after time-outs a fresh success cleared the count, and the MAX_ERRORS-th
\* time-out after it raised UpdateFailed
C10_Witness ==
    /\ cycle.cleared >= 1
    /\ cycle.fresh = MAX_ERRORS
    /\ cycle.outcome = "timeout"
    /\ cycle.raised

\* C11: while read cycles keep timing out with no success in between,
\* UpdateFailed is raised by the cycle that crosses the threshold and by no
\* later one.
C11_FailureReportedOnce ==
    run > MAX_ERRORS => ~cycle.raised

\* ------------------------------------------------------------------------
\* Properties: push through the coordinator (specification SpecPush)
\* ------------------------------------------------------------------------
\* C12: a push through the coordinator, also one whose send times out, leaves
\* _error_count, _last_response_time and _last_error_time as they were.
C12_PushKeepsReadHealth ==
    [][\A p \in Pushers :
          last'.proc = p =>
             /\ error_count' = error_count
             /\ last_response_time' = last_response_time
             /\ last_error_time' = last_error_time]_vars

\* the send of a push timed out while the read path had counted errors
C12_Witness ==
    /\ last.op = "send_timeout"
    /\ last.proc = "push1"
    /\ task["push1"].res = "timeout"
    /\ error_count >= 1

\* C13: a time-out during a push through the coordinator reaches the caller
\* of the push as a time-out failure.
C13_PushTimeoutReported ==
    \A p \in Pushers :
       task[p].res = "timeout" => task[p].ret = "DeviceTimeoutError"

\* ------------------------------------------------------------------------
\* Properties: value ranges of the setters (specification SpecTemp)
\* ------------------------------------------------------------------------
\* C14: the target-temperature setter accepts exactly 8..30 in Celsius mode
\* and 46..86 in Fahrenheit mode, and a rejected call raises the range error
\* and leaves SetTem, TemRec and the dirty list as they were.
C14_TargetTemperatureRange ==
    [][last'.op = "set_temp" =>
          LET v == last'.val
              accepted == IF properties[TEMP_UNIT] = 1
                          THEN v \in TEMP_MIN_F..TEMP_MAX_F
                          ELSE v \in TEMP_MIN..TEMP_MAX
          IN  /\ accepted <=> last'.info = "ok"
              /\ ~accepted =>
                    /\ last'.info = "ValueError"
                    /\ properties' = properties
                    /\ dirty' = dirty]_vars

\* 87 F was rejected after 86 F had been accepted and stored as 30
C14_Witness ==
    /\ last.op = "set_temp"
    /\ last.val = 87
    /\ last.info = "ValueError"
    /\ properties[TEMP_UNIT] = 1
    /\ properties[TEMP_SET] = TEMP_MAX
    /\ TEMP_SET \in Range(dirty)

\* C15: the target-humidity setter called with a value outside 30..80 fails
\* with a range error and leaves the properties and the dirty list as they
\* were.
C15_TargetHumidityRange ==
    [][(last'.op = "set_hum" /\ last'.val \notin HUMIDITY_MIN..HUMIDITY_MAX) =>
          /\ last'.info = "ValueError"
          /\ properties' = properties
          /\ dirty' = dirty]_vars

\* ------------------------------------------------------------------------
\* Properties: the temperature table (specification SpecTable)
\* ------------------------------------------------------------------------
\* C16: for every Fahrenheit value of the table, the pair made by
\* generate_temperature_record is looked up in Fahrenheit mode without error
\* and gives a Fahrenheit value that is a row of the table, the row of that
\* pair.
C16_TableRoundTrip ==
    [][(last.op = "record" /\ last'.op = "get_temp" /\ properties[TEMP_UNIT] = 1) =>
          /\ last'.info = "ok"
          /\ last'.val \in TableInputs
          /\ TEMP_TABLE[last'.val - TEMP_MIN_TABLE_F + 1] =
                [f |-> last'.val, temSet |-> properties[TEMP_SET],
                 temRec |-> properties[TEMP_BIT]]]_vars

\* 47 F was recorded as (8, 1) and looked up again; 46 F is the first row of 8
C16_Witness ==
    /\ last.op = "get_temp"
    /\ last.info = "ok"
    /\ last.val = 47
    /\ properties[TEMP_UNIT] = 1
    /\ properties[TEMP_SET] = 8
    /\ properties[TEMP_BIT] = 1

\* ------------------------------------------------------------------------
\* Properties: keys outside the vocabulary (specification SpecWire)
\* ------------------------------------------------------------------------
\* C17: a status response carrying a key outside Props is handled and stores
\* the key's value; the value stays through every later step that is not a
\* status response naming the key or a set_property on it; and a push whose
\* dirty list holds the key sends the stored value.
C17_UnknownKeyRetained ==
    [][/\ \A kw \in WireMaps :
             StatusResponse(kw, None) =>
                /\ last'.info = "handled"
                /\ properties'[UNKNOWN_KEY] =
                      IF UNKNOWN_KEY \in DOMAIN kw THEN kw[UNKNOWN_KEY]
                      ELSE properties[UNKNOWN_KEY]
       /\ (last'.op # "status" /\ ~(last'.op = "set" /\ last'.key = UNKNOWN_KEY)) =>
             properties'[UNKNOWN_KEY] = properties[UNKNOWN_KEY]
       /\ \A p \in Pushers :
             (task[p].pc # "send_wait" /\ task'[p].pc = "send_wait"
                 /\ UNKNOWN_KEY \in Range(dirty)) =>
                task'[p].cmd[UNKNOWN_KEY] = properties[UNKNOWN_KEY]]_vars

\* a push has sent, for the key outside Props, a value that only a status
\* response can have stored
C17_Witness ==
    /\ task["push1"].cmd[UNKNOWN_KEY] = 7
    /\ task["push1"].res = "ok"
    /\ properties[UNKNOWN_KEY] = 7
    /\ last.op = "send_done"

\* ------------------------------------------------------------------------
\* Properties: termination of bind (specification SpecBindFair)
\* ------------------------------------------------------------------------
\* C18: under fairness of the timer every bind() call that waits for the
\* device eventually ends, bound or with a time-out or not-bound error, also
\* when the device never answers.
C18_BindTerminates ==
    (task["bind"].pc = "bind_wait") ~>
        (task["bind"].pc = "idle"
            /\ task["bind"].res \in {"ok", "timeout", "notbound"})

\* a bind() with an explicit cipher ended with a time-out and the device has
\* never answered
C18_Witness ==
    /\ task["bind"].pc = "idle"
    /\ task["bind"].explicit
    /\ task["bind"].res = "timeout"
    /\ Len(task["bind"].bsent) = 1
    /\ ~ready
    /\ device_cipher = NoCipher

\* ------------------------------------------------------------------------
\* Properties: the read cycle, not bound and stale (specification SpecCoord)
\* ------------------------------------------------------------------------
\* the step in which the read cycle of the coordinator ends
PollEnds == last'.proc = "poll" /\ task'["poll"].pc = "idle"

\* C19: a read cycle whose update_state raises DeviceNotBoundError raises
\* UpdateFailed, whatever the error count and the previous outcome, and
\* leaves the error count as it was.
C19_NotBoundAlwaysFails ==
    [][(PollEnds /\ task'["poll"].res = "notbound") =>
          /\ cycle'.outcome = "notbound"
          /\ cycle'.raised
          /\ ~last_update_success'
          /\ error_count' = error_count]_vars

\* a not-bound cycle has failed after a cycle that timed out and was counted
C19_Witness ==
    /\ cycle.outcome = "notbound"
    /\ cycle.raised
    /\ task["poll"].res = "notbound"
    /\ error_count >= 1

\* C20: a successful read cycle that detects staleness adds at most one to the
\* error count, and adds it only when no such addition was made less than one
\* update interval before; the time of the addition is then recorded.
C20_StaleCountedOncePerInterval ==
    [][(PollEnds /\ cycle'.outcome = "stale") =>
          /\ error_count' \in {error_count, error_count + 1}
          /\ error_count' = error_count + 1 =>
                /\ last_error_time = NoTime \/ now - last_error_time >= UPDATE_INTERVAL
                /\ last_error_time' = now
          /\ error_count' = error_count => last_error_time' = last_error_time]_vars

\* a stale cycle has just ended less than one update interval after the stale
\* cycle that was counted, and was not counted itself
C20_Witness ==
    /\ last.proc = "poll"
    /\ task["poll"].pc = "idle"
    /\ cycle.outcome = "stale"
    /\ last_error_time # NoTime
    /\ now > last_error_time
    /\ now - last_error_time < UPDATE_INTERVAL
    /\ error_count = MAX_ERRORS

\* C21: the last-response time is set to the current time at the end of every
\* read cycle, whichever branch the cycle took (not bound, time-out below or
\* at the threshold, stale success, fresh success).
C21_ResponseTimeSetByEveryCycle ==
    [][PollEnds => last_response_time' = now]_vars

\* C22: whenever device_state_updated runs, the error count becomes zero and
\* the last-response time becomes the current time, whatever they were.
C22_StateUpdateResetsHealth ==
    [][last'.op = "state_updated" =>
          /\ error_count' = 0
          /\ last_response_time' = now]_vars

\* the handler has run after a time-out cycle that had raised UpdateFailed at
\* the threshold, later than the last response
C22_Witness ==
    /\ last.op = "state_updated"
    /\ cycle.outcome = "timeout"
    /\ cycle.raised
    /\ error_count = 0
    /\ now >= 1
    /\ last_response_time = now

\* ------------------------------------------------------------------------
\* Properties: the push path (specification Spec)
\* ------------------------------------------------------------------------
\* C23: push_state_update called with an empty DirtySet returns at once: it
\* starts no bind, sends no message and changes no device state, also when
\* the device is not bound.
C23_EmptyPushIsNoOp ==
    [][\A p \in Pushers :
          (last'.op = "push" /\ last'.proc = p /\ dirty = << >>) =>
             /\ task'[p].pc = "idle"
             /\ task'[p].res = "noop"
             /\ last'.sent = "none"
             /\ bindReqs' = bindReqs
             /\ UNCHANGED devVars]_vars

\* a push with nothing to send has returned on a device that was never bound
C23_Witness ==
    /\ last.op = "push"
    /\ last.proc = "push1"
    /\ task["push1"].res = "noop"
    /\ dirty = << >>
    /\ device_cipher = NoCipher
    /\ bindReqs = {}
    /\ ~transport

\* ------------------------------------------------------------------------
\* Properties: the temperature keys of a command (specification SpecTempPush)
\* ------------------------------------------------------------------------
\* C24: whenever SetTem is in DirtySet when a push builds its command, the
\* command also carries TemRec and TemUn, each with its stored value.
C24_SetTemCarriesBitAndUnit ==
    [][\A p \in Pushers :
          (task[p].pc # "send_wait" /\ task'[p].pc = "send_wait"
              /\ TEMP_SET \in Range(dirty)) =>
             /\ task'[p].cmd[TEMP_SET] = properties[TEMP_SET]
             /\ task'[p].cmd[TEMP_BIT] = properties[TEMP_BIT]
             /\ task'[p].cmd[TEMP_UNIT] = properties[TEMP_UNIT]
             /\ task'[p].cmd[TEMP_BIT] # NotSent
             /\ task'[p].cmd[TEMP_UNIT] # NotSent]_vars

\* 68 F has been pushed as SetTem 20 with TemRec 0 and TemUn 1
C24_Witness ==
    /\ task["push1"].pc = "send_wait"
    /\ task["push1"].cmd[TEMP_SET] = 20
    /\ task["push1"].cmd[TEMP_BIT] = 0
    /\ task["push1"].cmd[TEMP_UNIT] = 1
    /\ dirty = << >>

\* ------------------------------------------------------------------------
\* Properties: the firmware-offset detection (specification SpecSensor)
\* ------------------------------------------------------------------------
\* C25: the detection runs at most once per Device: check_version is cleared
\* by the first status response that carries TemSen, is never set again, and
\* a status response handled after that takes the version from its firmware
\* id only.
C25_DetectionRunsOnce ==
    [][/\ check_version' => check_version
       /\ \A kw \in SensorMaps, h \in Hids \cup {None} :
             StatusResponse(kw, h) =>
                /\ check_version' = (check_version /\ TEMP_SENSOR \notin DOMAIN kw)
                /\ ~check_version =>
                      version' = IF h # None THEN ParseVersion(h) ELSE version]_vars

\* a raw value below the offset is stored, the flag is cleared and the
\* version is not the one the detection sets
C25_Witness ==
    /\ last.op = "status"
    /\ ~check_version
    /\ properties[TEMP_SENSOR] = 25
    /\ version = "3.31"

\* C26: once the detection has run, whether current_temperature subtracts the
\* offset never changes, whatever status responses are handled.
C26_OffsetChoiceIsCached ==
    [][~check_version =>
          ((VersionMajor(version') = 4) <=> (VersionMajor(version) = 4))]_vars

\* C27: with a stored raw sensor value of exactly 0, current_temperature
\* returns the target temperature, for every firmware version.
C27_ZeroSensorFallsBack ==
    (last.op = "get_current" /\ properties[TEMP_SENSOR] = 0) => last.info = "target"

\* ------------------------------------------------------------------------
\* Properties: the requests of one bind (specification SpecBind)
\* ------------------------------------------------------------------------
\* C28: one bind() call sends at most two bind requests; called with a cipher
\* and no key it sends exactly one, under that cipher, and a time-out of it
\* ends the call with DeviceTimeoutError without a trial of the other
\* variant.
C28_BindSendsAtMostTwo ==
    [][\A p \in Procs :
          LET t == task'[p]
          IN  /\ Len(t.bsent) <= 2
              /\ (t.explicit /\ t.bsent # << >>) =>
                    /\ Len(t.bsent) = 1
                    /\ t.btimed \subseteq {t.bsent[1]}
                    /\ t.btimed # {} => (t.pc = "idle" /\ t.res = "timeout")
              /\ (last'.op = "bind" /\ last'.proc = p /\ last'.info \in Variants
                     /\ last'.sent = "bind") =>
                    t.bsent = <<last'.info>>]_vars

\* bind(cipher=CipherV1()) has timed out after its one request
C28_Witness ==
    /\ last.op = "bind_timeout"
    /\ task["bind"].explicit
    /\ task["bind"].bsent = <<V1>>
    /\ task["bind"].btimed = {V1}
    /\ task["bind"].res = "timeout"
    /\ task["bind"].pc = "idle"

\* ------------------------------------------------------------------------
\* Properties: nothing is sent without a cipher (specification SpecPush)
\* ------------------------------------------------------------------------
\* C29: no status request and no command is sent while the device has no
\* cipher: update_state, and a push with a non-empty DirtySet, on an unbound
\* device start with bind(), and when that bind fails they end with its error
\* and send neither.
C29_NoSendWithoutCipher ==
    [][/\ last'.sent \in {"status", "command"} => device_cipher # NoCipher
       /\ \A p \in Procs :
             /\ (last'.proc = p /\ last'.op \in {"update", "push"}
                    /\ device_cipher = NoCipher
                    /\ (last'.op = "push" => dirty # << >>)) =>
                   \/ last'.sent = "bind"
                   \/ (task'[p].pc = "idle" /\ task'[p].res = "notbound")
             /\ (task[p].pc = "bind_wait" /\ task'[p].pc = "idle") =>
                   /\ task'[p].res \in {"timeout", "notbound"}
                   /\ last'.sent = "none"
                   /\ task'[p].cmd = NoCmd]_vars

\* the bind inside a read cycle was confirmed without a key: update_state
\* has raised DeviceNotBoundError and sent no status request
C29_Witness ==
    /\ last.op = "bind_done"
    /\ last.proc = "poll"
    /\ last.sent = "none"
    /\ task["poll"].res = "notbound"
    /\ device_cipher = NoCipher
    /\ ready

\* ------------------------------------------------------------------------
\* Properties: the three temperature keys (specification SpecTempPush)
\* ------------------------------------------------------------------------
\* C30: every command of a push that carries TemRec also carries SetTem and
\* TemUn, also after a Fahrenheit change of the target temperature that
\* alters only the compensation bit.
C30_TemperatureKeysTravelTogether ==
    \A p \in Pushers :
       task[p].cmd[TEMP_BIT] # NotSent =>
          /\ task[p].cmd[TEMP_SET] # NotSent
          /\ task[p].cmd[TEMP_UNIT] # NotSent

\* ------------------------------------------------------------------------
\* Properties: the table is one-to-one (specification SpecTable)
\* ------------------------------------------------------------------------
\* C31: no two rows of the temperature table have the same (Celsius, bit)
\* pair, so for every Fahrenheit value f of the table the pair made by
\* generate_temperature_record is looked up in Fahrenheit mode as exactly f.
C31_TableRoundTripIsIdentity ==
    [][(last.op = "record" /\ last'.op = "get_temp" /\ properties[TEMP_UNIT] = 1) =>
          /\ \A g \in TableInputs :
                (/\ generate_temperature_record(g).temSet = properties[TEMP_SET]
                 /\ generate_temperature_record(g).temRec = properties[TEMP_BIT])
                => g = last.val
          /\ last'.info = "ok"
          /\ last'.val = last.val]_vars

\* 49 F, the second of the two rows of 9 C, has come back from the lookup
C31_Witness ==
    /\ last.op = "get_temp"
    /\ last.info = "ok"
    /\ last.val = 49
    /\ properties[TEMP_UNIT] = 1
    /\ properties[TEMP_SET] = 9
    /\ properties[TEMP_BIT] = 1

\* ------------------------------------------------------------------------
\* Properties: overlapping operations on one Device (specification
\* SpecOverlap)
\* ------------------------------------------------------------------------
\* C32: every command sent by push_state_update carries at least one
\* property; a command with nothing but the buzzer flag is never sent, also
\* when two push calls overlap at the bind wait of an unbound Device.
C32_CommandCarriesDirtyKey ==
    \A p \in Pushers :
       task[p].pc = "send_wait" =>
          \E k \in PropKeys : task[p].cmd[k] # NotSent

\* C33: a value set locally is what the next push sends for its key, also
\* when a status response that reports another value for the key is handled
\* between the setter call and the push (here every setter call writes
\* SetVal and every status response reports ReportedVal).
C33_LocalValueSurvivesStatus ==
    \A p \in Pushers, k \in {POWER, MODE} :
       task[p].cmd[k] # NotSent => task[p].cmd[k] = SetVal

\* C34: every key of DirtySet is present in PropertyStore: a key is stored
\* when it is marked dirty, no step removes a stored key, and the command a
\* push builds has a stored value for every dirty key.
C34_DirtyKeysAreStored ==
    [][/\ \A k \in Range(dirty') : properties'[k] # Absent
       /\ \A k \in PropKeys : properties[k] # Absent => properties'[k] # Absent
       /\ \A p \in Pushers :
             (task[p].pc # "send_wait" /\ task'[p].pc = "send_wait") =>
                \A k \in Range(dirty) : task'[p].cmd[k] \notin {Absent, NotSent}]_vars

\* a push has sent both keys after a status response replaced one of them
C34_Witness ==
    /\ task["push1"].pc = "send_wait"
    /\ task["push1"].cmd[POWER] = ReportedVal
    /\ task["push1"].cmd[MODE] = SetVal
    /\ dirty = << >>
    /\ properties[POWER] # Absent
    /\ properties[MODE] # Absent

====
